---- MODULE Spec2Model ----
(***************************************************************************)
(* Telemetry ingestion, dashboard and health check of the PinePhone Pro    *)
(* telemetry service.                                                      *)
(*                                                                         *)
(* The store (devices, telemetry_readings and the child tables) is shared  *)
(* by concurrent request handlers.  A handler runs between two awaits as   *)
(* one step; every awaited database statement is a step of its own, and    *)
(* the statements a Promise.all issues together are in flight together and *)
(* complete, or fail, one by one in any order.                             *)
(***************************************************************************)
EXTENDS Integers, Sequences, FiniteSets, Bags, TLC

(***************************************************************************)
(* Bounds of the model.                                                    *)
(***************************************************************************)
MaxTime == 2        \* the wall clock runs over 0..MaxTime
MaxFaults == 1      \* statements the store may fail in one run
MaxNodes == 3       \* nodes of the storage-device forest of a payload
MaxBatch == 2       \* payloads of a batch request

Clients == {1, 2}

Min(a, b) == IF a < b THEN a ELSE b

(***************************************************************************)
(* JavaScript values.  An absent field is undefined; `!x` holds of         *)
(* undefined and of the empty string.                                      *)
(***************************************************************************)
undefined == "undefined"
Falsy(x) == x = undefined \/ x = ""

\* new Date(string): the time value of an ISO-8601 string in seconds since the
\* epoch, or Invalid Date.
InvalidDate == -1
IsoStrings == {"1969-12-31T22:00:00Z", "1969-12-31T23:30:00Z", "1970-01-01T00:00:00Z",
               "1970-01-01T00:00:01Z", "1970-01-01T00:00:02Z", "1970-01-01T01:00:00Z"}
\* Mutant: a string that is no date read as the epoch.
DateParse_Lenient(s) ==
    CASE s = "1969-12-31T22:00:00Z" -> -7200
      [] s = "1969-12-31T23:30:00Z" -> -1800
      [] s = "1970-01-01T00:00:01Z" -> 1
      [] s = "1970-01-01T00:00:02Z" -> 2
      [] s = "1970-01-01T01:00:00Z" -> 3600
      [] OTHER -> 0

DateParse(s) ==
    CASE s = "1969-12-31T22:00:00Z" -> -7200
      [] s = "1969-12-31T23:30:00Z" -> -1800
      [] s = "1970-01-01T00:00:00Z" -> 0
      [] s = "1970-01-01T00:00:01Z" -> 1
      [] s = "1970-01-01T00:00:02Z" -> 2
      [] s = "1970-01-01T01:00:00Z" -> 3600
      [] OTHER -> InvalidDate

(***************************************************************************)
(* The tables of the schema, by tier of the normalizer that fills them.    *)
(***************************************************************************)
HighTables == {"batteryReadings", "usbInputReadings", "usbPdReadings", "typeCPortReadings",
               "thermalZoneReadings", "coolingDeviceReadings", "thermalSummaryReadings",
               "cpuFrequencyReadings", "cpuTimeReadings", "cpuLoadReadings",
               "memoryReadings", "networkInterfaceReadings", "networkSummaryReadings"}
MediumTables == {"cpuFrequencyStats", "cpuIdleStats", "gpuReadings", "storageDeviceReadings",
                 "storageSummaryReadings", "processReadings", "processSummaryReadings"}
LowTables == {"sensorReadings", "displayReadings", "ledReadings", "rfKillReadings",
              "systemWakeupReadings"}
Tables == HighTables \cup MediumTables \cup LowTables

\* Child tables whose reading_id column is declared .unique().
UniqueReadingId == {"thermalSummaryReadings", "cpuLoadReadings", "memoryReadings",
                    "networkSummaryReadings", "gpuReadings", "storageSummaryReadings",
                    "processSummaryReadings", "sensorReadings", "displayReadings",
                    "systemWakeupReadings"}

TierOf(table) ==
    IF table \in HighTables THEN "high"
    ELSE IF table \in MediumTables THEN "medium" ELSE "low"

VARIABLES
    now,            \* the wall clock
    devices,        \* table devices: rows [id, deviceId, name, createdAt, lastSeenAt]
    readings,       \* table telemetry_readings: rows [id, deviceId, timestamp, timestampMs, frequency]
    rows,           \* the child tables but storage devices: a bag of [table, readingId, val]
    storageRows,    \* table storage_device_readings: rows [id, readingId, parentDeviceId, name]
    serial,         \* the serial sequences: [devices, readings, storage]
    inflight,       \* child inserts issued by a Promise.all and not yet executed
    faults,         \* statements the store has failed so far
    body,           \* body[c]: the request client c sends, [kind, payloads]
    pc,             \* pc[c]: where the handler of c's request stands
    idx,            \* idx[c]: index in body[c].payloads of the payload being processed
    local,          \* local[c]: [began, existing, date, deviceDbId, readingId]
    stack,          \* stack[c]: pending calls of insertStorageDevice, [device, parentDeviceId]
    results,        \* results[c]: TelemetryInsertResult[] of processTelemetryBatch
    response,       \* response[c]: [status, ids] once answered
    query,          \* the GET request of the run: [route, deviceId, hours, limit]
    dash,           \* the handler of GET /api/dashboard: its position and its locals
    health          \* the handler of GET /api/health: its position and its answer

vars == <<now, devices, readings, rows, storageRows, serial, inflight, faults,
          body, pc, idx, local, stack, results, response, query, dash, health>>

\* The state of the GET handlers, which no submission touches.
gets == <<query, dash, health>>

store == <<devices, readings, rows, storageRows>>

(***************************************************************************)
(* Payloads.  data is the tier-shaped object; optional arrays that are     *)
(* absent are read as [] by the normalizers (`?.map(...) ?? []`,           *)
(* `if (device.partitions)`), so they are kept as empty sequences.         *)
(***************************************************************************)
NoData == [shape |-> undefined]

HighData(z, cd, f, t, n) ==
    [shape |-> "high", zones |-> z, coolingDevices |-> cd, frequencies |-> f,
     cpuTimes |-> t, interfaces |-> n]

MediumData(fs, is, ps, ds) ==
    [shape |-> "medium", frequencyStats |-> fs, idleStats |-> is, processes |-> ps,
     devices |-> ds]

LowData(l, r) == [shape |-> "low", leds |-> l, rfkill |-> r]

\* A block device of the payload: its name and its partitions, block devices again.
BlockDevice(name, partitions) == [name |-> name, partitions |-> partitions]

\* Every forest of block devices with exactly n nodes, each named by its path
\* from the payload's storage.devices (<<2, 1>>: first partition of the second device).
RECURSIVE Forests(_, _, _)
Forests(n, path, first) ==
    IF n = 0 THEN {<<>>}
    ELSE UNION { { <<BlockDevice(Append(path, first), parts)>> \o rest :
                     parts \in Forests(k - 1, Append(path, first), 1),
                     rest \in Forests(n - k, path, first + 1) } : k \in 1..n }

StorageForests == UNION { Forests(n, <<>>, 1) : n \in 0..MaxNodes }

\* The block devices of a forest, each with the name of its parent (<<>> for a root).
RECURSIVE ForestNodes(_, _)
ForestNodes(forest, parent) ==
    UNION { {[name |-> forest[k].name, parent |-> parent]}
            \cup ForestNodes(forest[k].partitions, forest[k].name) : k \in DOMAIN forest }

Payload(deviceId, timestamp, timestampMs, frequency, data) ==
    [deviceId |-> deviceId, timestamp |-> timestamp, timestampMs |-> timestampMs,
     frequency |-> frequency, data |-> data]

ExternalIds == {"ppp-a", "ppp-b"}
Iso1 == "1970-01-01T00:00:01Z"

HighSamples == { HighData(<<>>, <<>>, <<>>, <<>>, <<>>),
                 HighData(<<11, 12>>, <<>>, <<>>, <<>>, <<>>),
                 HighData(<<>>, <<21>>, <<>>, <<41>>, <<>>),
                 HighData(<<>>, <<>>, <<31>>, <<>>, <<51>>) }
MediumSamples == { MediumData(<<>>, <<>>, <<>>, ds) : ds \in StorageForests }
                 \cup { MediumData(<<61>>, <<71, 72>>, <<81>>, <<>>) }
LowSamples == { LowData(<<>>, <<>>), LowData(<<91>>, <<95, 96>>) }

SmallSamples == { LowData(<<>>, <<>>),
                  MediumData(<<>>, <<>>, <<>>, <<BlockDevice(<<1>>, <<>>)>>) }
(***************************************************************************)
(* The normalizers.  Each builds the inserts its Promise.all issues        *)
(* together: one per exactly-one table and one per element of each array.  *)
(* k tells the inserts of one table apart, val is the element inserted.    *)
(***************************************************************************)
Insert(readingId, table, k, val) ==
    [readingId |-> readingId, table |-> table, k |-> k, val |-> val]

InsertEach(readingId, table, array) ==
    { Insert(readingId, table, k, array[k]) : k \in DOMAIN array }

\* Mutant: the cooling devices mapped from thermal.zones.
insertHighFrequencyData_CoolingFromZones(readingId, data) ==
    { Insert(readingId, t, 1, 0) :
        t \in {"batteryReadings", "usbInputReadings", "usbPdReadings", "typeCPortReadings",
               "thermalSummaryReadings", "cpuLoadReadings", "memoryReadings",
               "networkSummaryReadings"} }
    \cup InsertEach(readingId, "thermalZoneReadings", data.zones)
    \cup InsertEach(readingId, "coolingDeviceReadings", data.zones)
    \cup InsertEach(readingId, "cpuFrequencyReadings", data.frequencies)
    \cup InsertEach(readingId, "cpuTimeReadings", data.cpuTimes)
    \cup InsertEach(readingId, "networkInterfaceReadings", data.interfaces)

\* Mutant: the battery row inserted twice.
insertHighFrequencyData_BatteryTwice(readingId, data) ==
    { Insert(readingId, t, 1, 0) :
        t \in {"batteryReadings", "usbInputReadings", "usbPdReadings", "typeCPortReadings",
               "thermalSummaryReadings", "cpuLoadReadings", "memoryReadings",
               "networkSummaryReadings"} }
    \cup {Insert(readingId, "batteryReadings", 2, 0)}
    \cup InsertEach(readingId, "thermalZoneReadings", data.zones)
    \cup InsertEach(readingId, "coolingDeviceReadings", data.coolingDevices)
    \cup InsertEach(readingId, "cpuFrequencyReadings", data.frequencies)
    \cup InsertEach(readingId, "cpuTimeReadings", data.cpuTimes)
    \cup InsertEach(readingId, "networkInterfaceReadings", data.interfaces)

insertHighFrequencyData(readingId, data) ==
    { Insert(readingId, t, 1, 0) :
        t \in {"batteryReadings", "usbInputReadings", "usbPdReadings", "typeCPortReadings",
               "thermalSummaryReadings", "cpuLoadReadings", "memoryReadings",
               "networkSummaryReadings"} }
    \cup InsertEach(readingId, "thermalZoneReadings", data.zones)
    \cup InsertEach(readingId, "coolingDeviceReadings", data.coolingDevices)
    \cup InsertEach(readingId, "cpuFrequencyReadings", data.frequencies)
    \cup InsertEach(readingId, "cpuTimeReadings", data.cpuTimes)
    \cup InsertEach(readingId, "networkInterfaceReadings", data.interfaces)

\* The Promise.all of insertMediumFrequencyData; the storage devices follow it.
insertMediumFrequencyData(readingId, data) ==
    InsertEach(readingId, "cpuFrequencyStats", data.frequencyStats)
    \cup InsertEach(readingId, "cpuIdleStats", data.idleStats)
    \cup { Insert(readingId, t, 1, 0) :
             t \in {"gpuReadings", "storageSummaryReadings", "processSummaryReadings"} }
    \cup InsertEach(readingId, "processReadings", data.processes)

\* Mutant: the wakeup count written to cpu_load_readings.
insertLowFrequencyData_WrongTable(readingId, data) ==
    { Insert(readingId, t, 1, 0) :
        t \in {"sensorReadings", "displayReadings", "cpuLoadReadings"} }
    \cup InsertEach(readingId, "ledReadings", data.leds)
    \cup InsertEach(readingId, "rfKillReadings", data.rfkill)

insertLowFrequencyData(readingId, data) ==
    { Insert(readingId, t, 1, 0) :
        t \in {"sensorReadings", "displayReadings", "systemWakeupReadings"} }
    \cup InsertEach(readingId, "ledReadings", data.leds)
    \cup InsertEach(readingId, "rfKillReadings", data.rfkill)

\* The row an insert writes.
RowOf(insert) == [table |-> insert.table, readingId |-> insert.readingId, val |-> insert.val]

RowsOf(table, readingId) ==
    { r \in BagToSet(rows) : r.table = table /\ r.readingId = readingId }

\* Number of rows of `table` that reference reading `readingId`.
CountRows(table, readingId) ==
    LET rs == RowsOf(table, readingId)
        count[S \in SUBSET rs] ==
            IF S = {} THEN 0
            ELSE LET r == CHOOSE x \in S : TRUE IN CopiesIn(r, rows) + count[S \ {r}]
    IN  IF table = "storageDeviceReadings"
        THEN Cardinality({ r \in storageRows : r.readingId = readingId })
        ELSE count[rs]

(***************************************************************************)
(* Constraints of the schema, as the store checks them on insert.          *)
(***************************************************************************)
\* Mutant: the schema without the unique constraint on device_id.
DeviceIdTaken_NoConstraint(deviceId) == FALSE

\* devices.device_id is .unique()
DeviceIdTaken(deviceId) == \E d \in devices : d.deviceId = deviceId

\* telemetry_readings.device_id references devices.id
DeviceExists(id) == \E d \in devices : d.id = id

\* reading_id of every child table references telemetry_readings.id
ReadingExists(id) == \E r \in readings : r.id = id

\* a second row for the same reading in a table with a unique reading_id
ReadingIdTaken(table, readingId) ==
    table \in UniqueReadingId /\ RowsOf(table, readingId) # {}

(***************************************************************************)
(* Requests and responses.                                                 *)
(***************************************************************************)
Single(payload) == [kind |-> "single", isArray |-> TRUE, payloads |-> <<payload>>]
Batch(payloads) == [kind |-> "batch", isArray |-> TRUE, payloads |-> payloads]
\* a batch body whose payloads field is missing or is no array
BatchWithoutArray == [kind |-> "batch", isArray |-> FALSE, payloads |-> <<>>]
NoRequest == [kind |-> "none", isArray |-> FALSE, payloads |-> <<>>]

NoResponse == [status |-> 0, received |-> 0, failed |-> 0, ids |-> <<>>]
\* json(response, {status}) of a rejected or failed request
ErrorResponse(status) == [status |-> status, received |-> 0, failed |-> 0, ids |-> <<>>]

NoLocal == [began |-> 0, existing |-> 0, date |-> 0, deviceDbId |-> 0, readingId |-> 0]

\* The instants a clock read may return: time does not run backwards.
Clock == now..Min(now + 1, MaxTime)

\* The payload the handler of c is processing.
payloadOf(c) == body[c].payloads[idx[c]]

\* Mutant: the check of the timestamp left out of the validation.
MissingFields_NoTimestamp(payload) ==
    \/ Falsy(payload.deviceId)
    \/ Falsy(payload.frequency)
    \/ payload.data.shape = undefined

\* The per-field validation both endpoints apply to a payload.
MissingFields(payload) ==
    \/ Falsy(payload.deviceId)
    \/ Falsy(payload.timestamp)
    \/ Falsy(payload.frequency)
    \/ payload.data.shape = undefined

InvalidFrequency(payload) == payload.frequency \notin {"high", "medium", "low"}

\* catch (error) { ... return json(response, { status: 500 }) }
Throw(c) ==
    /\ pc' = [pc EXCEPT ![c] = "done"]
    /\ response' = [response EXCEPT ![c] = ErrorResponse(500)]

(***************************************************************************)
(* POST /api/telemetry: validation, then processTelemetryPayload.          *)
(***************************************************************************)
POST_telemetry(c) ==
    /\ pc[c] = "idle"
    /\ body[c].kind = "single"
    /\ LET payload == body[c].payloads[1] IN
       IF MissingFields(payload) \/ InvalidFrequency(payload)
       THEN /\ pc' = [pc EXCEPT ![c] = "done"]
            /\ response' = [response EXCEPT ![c] = ErrorResponse(400)]
            /\ UNCHANGED <<now, idx, local>>
       ELSE /\ \E t \in Clock :
                 /\ now' = t
                 /\ local' = [local EXCEPT ![c] = [NoLocal EXCEPT !.began = t]]
            /\ idx' = [idx EXCEPT ![c] = 1]
            /\ pc' = [pc EXCEPT ![c] = "getOrCreateDevice"]
            /\ UNCHANGED response
    /\ UNCHANGED <<store, serial, inflight, faults, body, stack, results>>

(***************************************************************************)
(* POST /api/telemetry/batch: the whole array is validated, then           *)
(* processTelemetryBatch starts with its first payload.                    *)
(***************************************************************************)
\* Mutant: the frequency of the payloads of a batch left unchecked.
ValidationErrors_MissingOnly(payloads) ==
    { k \in DOMAIN payloads : MissingFields(payloads[k]) }

ValidationErrors(payloads) ==
    { k \in DOMAIN payloads : MissingFields(payloads[k]) \/ InvalidFrequency(payloads[k]) }

POST_batch(c) ==
    /\ pc[c] = "idle"
    /\ body[c].kind = "batch"
    /\ IF \/ ~body[c].isArray
          \/ Len(body[c].payloads) = 0
          \/ ValidationErrors(body[c].payloads) # {}
       THEN /\ pc' = [pc EXCEPT ![c] = "done"]
            /\ response' = [response EXCEPT ![c] = ErrorResponse(400)]
            /\ UNCHANGED <<now, idx, local>>
       ELSE /\ \E t \in Clock :
                 /\ now' = t
                 /\ local' = [local EXCEPT ![c] = [NoLocal EXCEPT !.began = t]]
            /\ idx' = [idx EXCEPT ![c] = 1]
            /\ pc' = [pc EXCEPT ![c] = "getOrCreateDevice"]
            /\ UNCHANGED response
    /\ UNCHANGED <<store, serial, inflight, faults, body, stack, results>>

(***************************************************************************)
(* getOrCreateDevice.  findFirst and the statement that follows it are     *)
(* two statements: another handler may run between them.  The update       *)
(* carries the Date the handler took when it issued it.                    *)
(***************************************************************************)
getOrCreateDevice_findFirst(c) ==
    /\ pc[c] = "getOrCreateDevice"
    /\ LET found == { d \in devices : d.deviceId = payloadOf(c).deviceId } IN
       IF found # {}
       THEN \E existing \in found, t \in Clock :
              /\ now' = t
              /\ local' = [local EXCEPT ![c].existing = existing.id, ![c].date = t]
              /\ pc' = [pc EXCEPT ![c] = "update"]
       ELSE /\ pc' = [pc EXCEPT ![c] = "insert"]
            /\ UNCHANGED <<now, local>>
    /\ UNCHANGED <<store, serial, inflight, faults, body, idx, stack, results, response>>

\* Mutant: the update without its where clause.
getOrCreateDevice_update_NoWhere(c) ==
    /\ pc[c] = "update"
    /\ devices' = { [d EXCEPT !.lastSeenAt = local[c].date] : d \in devices }
    /\ local' = [local EXCEPT ![c].deviceDbId = local[c].existing]
    /\ pc' = [pc EXCEPT ![c] = "createReading"]
    /\ UNCHANGED <<now, readings, rows, storageRows, serial, inflight, faults,
                   body, idx, stack, results, response>>

getOrCreateDevice_update(c) ==
    /\ pc[c] = "update"
    /\ devices' = { IF d.id = local[c].existing
                    THEN [d EXCEPT !.lastSeenAt = local[c].date] ELSE d : d \in devices }
    /\ local' = [local EXCEPT ![c].deviceDbId = local[c].existing]
    /\ pc' = [pc EXCEPT ![c] = "createReading"]
    /\ UNCHANGED <<now, readings, rows, storageRows, serial, inflight, faults,
                   body, idx, stack, results, response>>

\* Mutant: the name left out of the values of the insert.
NewDevice_Unnamed(id, deviceId, t) ==
    [id |-> id, deviceId |-> deviceId, name |-> undefined, createdAt |-> t, lastSeenAt |-> t]

\* The row the insert of a new device writes: name is the external id, and
\* created_at and last_seen_at take their defaultNow().
NewDevice(id, deviceId, t) ==
    [id |-> id, deviceId |-> deviceId, name |-> deviceId, createdAt |-> t, lastSeenAt |-> t]

\* Mutant: on a conflict the insert does nothing and the row that is there is
\* returned.
getOrCreateDevice_insert_OnConflict(c) ==
    /\ pc[c] = "insert"
    /\ serial' = [serial EXCEPT !.devices = @ + 1]
    /\ IF DeviceIdTaken(payloadOf(c).deviceId)
       THEN /\ \E d \in devices :
                 /\ d.deviceId = payloadOf(c).deviceId
                 /\ local' = [local EXCEPT ![c].deviceDbId = d.id]
            /\ UNCHANGED <<now, devices>>
       ELSE /\ \E t \in Clock :
                 /\ now' = t
                 /\ devices' = devices \cup
                        {NewDevice(serial'.devices, payloadOf(c).deviceId, t)}
            /\ local' = [local EXCEPT ![c].deviceDbId = serial'.devices]
    /\ pc' = [pc EXCEPT ![c] = "createReading"]
    /\ UNCHANGED <<readings, rows, storageRows, inflight, faults, body, idx, stack, results,
                   response>>

getOrCreateDevice_insert(c) ==
    /\ pc[c] = "insert"
    /\ serial' = [serial EXCEPT !.devices = @ + 1]
    /\ IF DeviceIdTaken(payloadOf(c).deviceId)
       THEN /\ Throw(c)
            /\ UNCHANGED <<now, devices, local>>
       ELSE /\ \E t \in Clock :
                 /\ now' = t
                 /\ devices' = devices \cup
                        {NewDevice(serial'.devices, payloadOf(c).deviceId, t)}
            /\ local' = [local EXCEPT ![c].deviceDbId = serial'.devices]
            /\ pc' = [pc EXCEPT ![c] = "createReading"]
            /\ UNCHANGED response
    /\ UNCHANGED <<readings, rows, storageRows, inflight, faults, body, idx, stack, results>>

(***************************************************************************)
(* createReading, with the new Date(payload.timestamp) before it.  An      *)
(* Invalid Date cannot be written to the timestamp column: the insert      *)
(* throws and no row is written.                                           *)
(***************************************************************************)
NewReading(id, deviceDbId, timestamp, timestampMs, frequency) ==
    [id |-> id, deviceId |-> deviceDbId, timestamp |-> timestamp,
     timestampMs |-> timestampMs, frequency |-> frequency]

\* Mutant: the insert of the reading not awaited; the handler goes on with the
\* id before the row is written.
createReading_NotAwaited(c) ==
    /\ pc[c] = "createReading"
    /\ serial' = [serial EXCEPT !.readings = @ + 1]
    /\ local' = [local EXCEPT ![c].readingId = serial'.readings]
    /\ pc' = [pc EXCEPT ![c] = "normalize"]
    /\ UNCHANGED <<now, store, inflight, faults, body, idx, stack, results, response>>

createReading(c) ==
    /\ pc[c] = "createReading"
    /\ LET payload == payloadOf(c)
           timestamp == DateParse(payload.timestamp)
       IN  IF timestamp = InvalidDate
           THEN /\ Throw(c)
                /\ UNCHANGED <<readings, serial, local>>
           ELSE /\ serial' = [serial EXCEPT !.readings = @ + 1]
                /\ IF ~DeviceExists(local[c].deviceDbId) \/ InvalidFrequency(payload)
                   THEN /\ Throw(c)
                        /\ UNCHANGED <<readings, local>>
                   ELSE /\ readings' = readings \cup
                               {NewReading(serial'.readings, local[c].deviceDbId, timestamp,
                                           payload.timestampMs, payload.frequency)}
                        /\ local' = [local EXCEPT ![c].readingId = serial'.readings]
                        /\ pc' = [pc EXCEPT ![c] = "normalize"]
                        /\ UNCHANGED response
    /\ UNCHANGED <<now, devices, rows, storageRows, inflight, faults, body, idx,
                   stack, results>>

(***************************************************************************)
(* The switch on payload.frequency.  The normalizer of the tier reads the  *)
(* sections of its own shape from payload.data; on data of another shape   *)
(* they are undefined and it throws a TypeError before any insert is       *)
(* issued.  Otherwise every insert of its Promise.all is issued at once.   *)
(***************************************************************************)
Normalizer(frequency, readingId, data) ==
    CASE frequency = "high" -> insertHighFrequencyData(readingId, data)
      [] frequency = "medium" -> insertMediumFrequencyData(readingId, data)
      [] frequency = "low" -> insertLowFrequencyData(readingId, data)

processTelemetryPayload_switch(c) ==
    /\ pc[c] = "normalize"
    /\ LET payload == payloadOf(c) IN
       IF payload.data.shape # payload.frequency
       THEN /\ Throw(c)
            /\ UNCHANGED inflight
       ELSE /\ inflight' = inflight \cup
                   Normalizer(payload.frequency, local[c].readingId, payload.data)
            /\ pc' = [pc EXCEPT ![c] = "awaitAll"]
            /\ UNCHANGED response
    /\ UNCHANGED <<now, store, serial, faults, body, idx, local, stack, results>>

(***************************************************************************)
(* The store executes one insert of a Promise.all.  A rejected insert      *)
(* rejects the Promise.all at once: the handler awaiting it answers 500    *)
(* while the other inserts stay in flight.                                 *)
(***************************************************************************)
Awaiting(insert) ==
    { c \in Clients : pc[c] = "awaitAll" /\ local[c].readingId = insert.readingId }

Reject(insert) ==
    /\ pc' = [c \in Clients |-> IF c \in Awaiting(insert) THEN "done" ELSE pc[c]]
    /\ response' = [c \in Clients |->
                      IF c \in Awaiting(insert) THEN ErrorResponse(500) ELSE response[c]]

childInsert(insert) ==
    /\ insert \in inflight
    /\ inflight' = inflight \ {insert}
    /\ IF ~ReadingExists(insert.readingId) \/ ReadingIdTaken(insert.table, insert.readingId)
       THEN /\ Reject(insert)
            /\ UNCHANGED rows
       ELSE /\ rows' = rows (+) SetToBag({RowOf(insert)})
            /\ UNCHANGED <<pc, response>>
    /\ UNCHANGED <<now, devices, readings, storageRows, serial, faults, body, idx,
                   local, stack, results>>

\* Mutant: a failed insert rolls back the Reading and the rows of its fan-out.
childInsertError_Rollback(insert) ==
    /\ insert \in inflight
    /\ faults < MaxFaults
    /\ faults' = faults + 1
    /\ inflight' = { i \in inflight : i.readingId # insert.readingId }
    /\ readings' = { r \in readings : r.id # insert.readingId }
    /\ rows' = [ r \in { x \in BagToSet(rows) : x.readingId # insert.readingId } |-> rows[r] ]
    /\ Reject(insert)
    /\ UNCHANGED <<now, devices, storageRows, serial, body, idx, local, stack, results>>

\* Mutant: the rejection of an insert swallowed; the handler goes on.
childInsertError_Swallowed(insert) ==
    /\ insert \in inflight
    /\ faults < MaxFaults
    /\ faults' = faults + 1
    /\ inflight' = inflight \ {insert}
    /\ UNCHANGED <<now, store, serial, body, pc, idx, local, stack, results, response>>

\* A storage or connectivity error on one insert of a Promise.all.
childInsertError(insert) ==
    /\ insert \in inflight
    /\ faults < MaxFaults
    /\ faults' = faults + 1
    /\ inflight' = inflight \ {insert}
    /\ Reject(insert)
    /\ UNCHANGED <<now, store, serial, body, idx, local, stack, results>>

(***************************************************************************)
(* Promise.all resolves once every insert it issued is written.  The high  *)
(* and low normalizers return; the medium one goes on to its storage       *)
(* devices, one awaited insertStorageDevice after the other.               *)
(***************************************************************************)
\* Mutant: the partitions inserted without the id of the row of their device.
Frames_NullParent(blockDevices, parentDeviceId) ==
    [k \in DOMAIN blockDevices |-> [device |-> blockDevices[k], parentDeviceId |-> 0]]

Frames(blockDevices, parentDeviceId) ==
    [k \in DOMAIN blockDevices |->
        [device |-> blockDevices[k], parentDeviceId |-> parentDeviceId]]

\* Mutant: the Promise.all of the normalizer not awaited.
promiseAllResolved_NotAwaited(c) ==
    /\ pc[c] = "awaitAll"
    /\ IF payloadOf(c).frequency = "medium" /\ payloadOf(c).data.devices # <<>>
       THEN /\ stack' = [stack EXCEPT ![c] = Frames(payloadOf(c).data.devices, 0)]
            /\ pc' = [pc EXCEPT ![c] = "insertStorageDevice"]
       ELSE /\ pc' = [pc EXCEPT ![c] = "return"]
            /\ UNCHANGED stack
    /\ UNCHANGED <<now, store, serial, inflight, faults, body, idx, local, results, response>>

promiseAllResolved(c) ==
    /\ pc[c] = "awaitAll"
    /\ \A insert \in inflight : insert.readingId # local[c].readingId
    /\ IF payloadOf(c).frequency = "medium" /\ payloadOf(c).data.devices # <<>>
       THEN /\ stack' = [stack EXCEPT ![c] = Frames(payloadOf(c).data.devices, 0)]
            /\ pc' = [pc EXCEPT ![c] = "insertStorageDevice"]
       ELSE /\ pc' = [pc EXCEPT ![c] = "return"]
            /\ UNCHANGED stack
    /\ UNCHANGED <<now, store, serial, inflight, faults, body, idx, local, results, response>>

(***************************************************************************)
(* insertStorageDevice: the row of the device is inserted, then each of    *)
(* its partitions in turn with the new row's id as parentDeviceId, before  *)
(* the next device.  stack[c] holds the calls still to make, next first;   *)
(* a parentDeviceId of 0 is null.                                          *)
(***************************************************************************)
NewStorageRow(id, readingId, parentDeviceId, device) ==
    [id |-> id, readingId |-> readingId, parentDeviceId |-> parentDeviceId,
     name |-> device.name]

insertStorageDevice(c) ==
    /\ pc[c] = "insertStorageDevice"
    /\ LET frame == Head(stack[c])
           rest == Frames(frame.device.partitions, serial'.storage) \o Tail(stack[c])
       IN  /\ serial' = [serial EXCEPT !.storage = @ + 1]
           /\ IF ~ReadingExists(local[c].readingId)
              THEN /\ Throw(c)
                   /\ UNCHANGED <<storageRows, stack>>
              ELSE /\ storageRows' = storageRows \cup
                          {NewStorageRow(serial'.storage, local[c].readingId,
                                         frame.parentDeviceId, frame.device)}
                   /\ stack' = [stack EXCEPT ![c] = rest]
                   /\ pc' = [pc EXCEPT ![c] = IF rest = <<>> THEN "return" ELSE @]
                   /\ UNCHANGED response
    /\ UNCHANGED <<now, devices, readings, rows, inflight, faults, body, idx, local,
                   results>>

(***************************************************************************)
(* processTelemetryPayload returns {readingId, deviceId}.  The single      *)
(* endpoint answers 201 with the id; processTelemetryBatch pushes the      *)
(* result and turns to the next payload, and the batch endpoint answers    *)
(* 201 once the loop is over.                                              *)
(***************************************************************************)
TelemetryInsertResult(readingId, deviceId) == [readingId |-> readingId, deviceId |-> deviceId]

\* Mutant: the ids taken from the device ids of the results.
Ack_DeviceIds(rs) ==
    [status |-> 201, received |-> Len(rs), failed |-> 0,
     ids |-> [k \in DOMAIN rs |-> ToString(rs[k].deviceId)]]

\* ids: results.map((r) => r.readingId.toString())
Ack(rs) ==
    [status |-> 201, received |-> Len(rs), failed |-> 0,
     ids |-> [k \in DOMAIN rs |-> ToString(rs[k].readingId)]]

processTelemetryPayload_return(c) ==
    /\ pc[c] = "return"
    /\ LET rs == Append(results[c],
                        TelemetryInsertResult(local[c].readingId, local[c].deviceDbId))
       IN  /\ results' = [results EXCEPT ![c] = rs]
           /\ IF idx[c] < Len(body[c].payloads)
              THEN /\ idx' = [idx EXCEPT ![c] = @ + 1]
                   /\ local' = [local EXCEPT ![c] = [NoLocal EXCEPT !.began = local[c].began]]
                   /\ pc' = [pc EXCEPT ![c] = "getOrCreateDevice"]
                   /\ UNCHANGED response
              ELSE /\ response' = [response EXCEPT ![c] = Ack(rs)]
                   /\ pc' = [pc EXCEPT ![c] = "done"]
                   /\ UNCHANGED <<idx, local>>
    /\ UNCHANGED <<now, store, serial, inflight, faults, body, stack>>

(***************************************************************************)
(* A storage or connectivity error on the statement a handler awaits       *)
(* (findFirst, update or insert of the device, insert of the reading or of *)
(* a storage device): the statement has no effect and the handler throws.  *)
(***************************************************************************)
\* Mutant: processTelemetryBatch catches the error of a payload and goes on
\* with the next one.
storeError_NextPayload(c) ==
    /\ pc[c] \in {"getOrCreateDevice", "update", "insert", "createReading",
                  "insertStorageDevice"}
    /\ faults < MaxFaults
    /\ faults' = faults + 1
    /\ IF idx[c] < Len(body[c].payloads)
       THEN /\ idx' = [idx EXCEPT ![c] = @ + 1]
            /\ local' = [local EXCEPT ![c] = [NoLocal EXCEPT !.began = local[c].began]]
            /\ pc' = [pc EXCEPT ![c] = "getOrCreateDevice"]
            /\ UNCHANGED response
       ELSE /\ Throw(c)
            /\ UNCHANGED <<idx, local>>
    /\ UNCHANGED <<now, store, serial, inflight, body, stack, results>>

storeError(c) ==
    /\ pc[c] \in {"getOrCreateDevice", "update", "insert", "createReading",
                  "insertStorageDevice"}
    /\ faults < MaxFaults
    /\ faults' = faults + 1
    /\ Throw(c)
    /\ UNCHANGED <<now, store, serial, inflight, body, idx, local, stack, results>>

(***************************************************************************)
(* GET /api/dashboard.  Every awaited query is a step that reads the store *)
(* as it is then; submissions may commit between two of them.  A query     *)
(* without orderBy returns its rows in any order, one with orderBy in any  *)
(* order that agrees with it.  A reading or row of id 0 stands for null.   *)
(***************************************************************************)
Hour == 3600        \* hours * 60 * 60 * 1000 milliseconds, in seconds
DefaultHours == 24
DefaultLimit == 500
TopProcessesLimit == 15

\* parseInt(string, 10)
NaN == -1000000
ParseInt(s) ==
    CASE s = "0" -> 0
      [] s = "1" -> 1
      [] s = "2" -> 2
      [] OTHER -> NaN

\* url.searchParams.get(name) of an absent parameter; `param ? a : b` takes b
\* for null and for the empty string.
null == "null"
Truthy(param) == param # null /\ param # ""
NullDevice == [id |-> 0, deviceId |-> "", name |-> "", createdAt |-> 0, lastSeenAt |-> 0]
NullReading == [id |-> 0, deviceId |-> 0, timestamp |-> 0, timestampMs |-> 0, frequency |-> ""]
NullRow == [table |-> "", readingId |-> 0, val |-> 0]
NullEntry == [timestamp |-> 0, readingId |-> 0, val |-> 0]

NoQuery == [route |-> "none", deviceId |-> null, hours |-> null, limit |-> null]
DashboardQuery(deviceId, hours, limit) ==
    [route |-> "dashboard", deviceId |-> deviceId, hours |-> hours, limit |-> limit]
HealthQuery == [route |-> "health", deviceId |-> null, hours |-> null, limit |-> null]

NoDash ==
    [pc |-> "idle", status |-> 0, success |-> FALSE,
     devices |-> <<>>, selectedDevice |-> NullDevice, at |-> 0, cutoffTime |-> 0,
     readings |-> <<>>, batteryData |-> <<>>, thermalData |-> <<>>,
     cpuLoadData |-> <<>>, memoryData |-> <<>>,
     latestMediumReading |-> NullReading, topProcesses |-> <<>>,
     latestCpuLoad |-> NullEntry, latestCpuLoadReading |-> NullRow,
     latestLowReading |-> NullReading, display |-> NullRow,
     networkStats |-> NullRow, gpuInfo |-> NullRow]

\* The sequences that list the elements of S once each.
Orders(S) ==
    { f \in [1..Cardinality(S) -> S] : \A i, j \in DOMAIN f : i # j => f[i] # f[j] }

\* Mutant: the devices ordered by createdAt.
LastSeenAt_CreatedAt(d) == d.createdAt

LastSeenAt(d) == d.lastSeenAt
Timestamp(r) == r.timestamp

\* orderBy: [desc(schema.devices.lastSeenAt)]
OrdersByLastSeenAt(S) ==
    { f \in Orders(S) : \A i, j \in DOMAIN f : i < j => LastSeenAt(f[i]) >= LastSeenAt(f[j]) }

\* orderBy: [desc(schema.telemetryReadings.timestamp)]
OrdersByTimestamp(S) ==
    { f \in Orders(S) : \A i, j \in DOMAIN f : i < j => Timestamp(f[i]) >= Timestamp(f[j]) }

\* .limit(n)
Limit(seq, n) == SubSeq(seq, 1, Min(n, Len(seq)))

\* The rows of a child table for the readings `ids`, one element per copy.
Fetched(table, ids) ==
    UNION { { [row |-> r, copy |-> n] : n \in 1..CopiesIn(r, rows) } :
              r \in { x \in BagToSet(rows) : x.table = table /\ x.readingId \in ids } }

ReadingById(id) == CHOOSE r \in readings : r.id = id

\* with: { reading: true }: the entry of a series, stamped by the row's reading.
Entry(row) ==
    [timestamp |-> ReadingById(row.readingId).timestamp, readingId |-> row.readingId,
     val |-> row.val]

\* findFirst on a child table: a row of the reading, or null.
FirstRows(table, readingId) ==
    IF RowsOf(table, readingId) = {} THEN {NullRow} ELSE RowsOf(table, readingId)

\* Mutant: the latest reading looked up among the readings fetched for the series.
LatestReadings_Snapshot(deviceDbId, frequency) ==
    LET mine == { r \in { dash.readings[k] : k \in DOMAIN dash.readings } :
                    r.deviceId = deviceDbId /\ r.frequency = frequency }
    IN  IF mine = {} THEN {NullReading}
        ELSE { r \in mine : \A other \in mine : other.timestamp <= r.timestamp }

\* Mutant: the latest reading of the tier, of whichever device.
LatestReadings_AnyDevice(deviceDbId, frequency) ==
    LET mine == { r \in readings : r.frequency = frequency }
    IN  IF mine = {} THEN {NullReading}
        ELSE { r \in mine : \A other \in mine : other.timestamp <= r.timestamp }

\* findFirst with orderBy desc(timestamp) on the readings of a device and tier.
LatestReadings(deviceDbId, frequency) ==
    LET mine == { r \in readings : r.deviceId = deviceDbId /\ r.frequency = frequency }
    IN  IF mine = {} THEN {NullReading}
        ELSE { r \in mine : \A other \in mine : other.timestamp <= r.timestamp }

\* The process rows of a reading by memoryPercent descending, every copy of a row.
RECURSIVE ProcessesDesc(_)
ProcessesDesc(S) ==
    IF S = {} THEN <<>>
    ELSE LET top == CHOOSE r \in S : \A other \in S : other.val <= r.val
         IN  [n \in 1..CopiesIn(top, rows) |-> top.val] \o ProcessesDesc(S \ {top})

\* Array.prototype.sort with (a, b) => time(a) - time(b): ascending and stable.
RECURSIVE InsertSorted(_, _)
InsertSorted(e, sorted) ==
    IF sorted = <<>> \/ sorted[Len(sorted)].timestamp <= e.timestamp
    THEN Append(sorted, e)
    ELSE Append(InsertSorted(e, SubSeq(sorted, 1, Len(sorted) - 1)), sorted[Len(sorted)])

RECURSIVE SortByTimestamp(_)
\* Mutant: the series returned in the order they were fetched.
SortByTimestamp_Unsorted(series) == series

SortByTimestamp(series) ==
    IF series = <<>> THEN <<>>
    ELSE InsertSorted(series[Len(series)],
                      SortByTimestamp(SubSeq(series, 1, Len(series) - 1)))

\* The queries of the handler in the order of the code, and whether the handler
\* with locals d makes the query.
Stages == <<"readings", "battery", "thermal", "cpuLoad", "memory", "latestMedium",
            "processes", "latestCpuLoad", "latestLow", "display", "network", "gpu",
            "respond">>

Due(d, stage) ==
    CASE stage \in {"battery", "thermal", "cpuLoad", "memory", "network"} -> d.readings # <<>>
      [] stage \in {"processes", "gpu"} -> d.latestMediumReading.id # 0
      [] stage \in {"latestCpuLoad", "latestLow"} -> d.cpuLoadData # <<>>
      [] stage = "display" -> d.cpuLoadData # <<>> /\ d.latestLowReading.id # 0
      [] OTHER -> TRUE

StageIndex(stage) == CHOOSE k \in DOMAIN Stages : Stages[k] = stage

\* The next query the handler makes after `stage`.
Following(d, stage) ==
    LET later == { k \in DOMAIN Stages : k > StageIndex(stage) /\ Due(d, Stages[k]) }
    IN  Stages[CHOOSE k \in later : \A other \in later : k <= other]

\* The locals after the query `stage` is answered.
Continue(d, stage) == [d EXCEPT !.pc = Following(d, stage)]

\* catch (error) { ... return json({ success: false, ... }, { status: 500 }) }
DashboardError == [dash EXCEPT !.pc = "done", !.status = 500, !.success = FALSE]

\* const devices = await db.query.devices.findMany(...), the empty state, and
\* the selection of the device and of the cutoff time.
dashboard_findDevices ==
    /\ query.route = "dashboard"
    /\ dash.pc = "idle"
    /\ \E found \in OrdersByLastSeenAt(devices), t \in Clock :
         IF found = <<>>
         THEN /\ dash' = [dash EXCEPT !.pc = "done", !.status = 200, !.success = TRUE]
              /\ UNCHANGED now
         ELSE LET hours == IF Truthy(query.hours) THEN ParseInt(query.hours)
                                                 ELSE DefaultHours
                  matching == { k \in DOMAIN found : found[k].deviceId = query.deviceId }
                  selectedDevice ==
                      IF Truthy(query.deviceId) /\ matching # {}
                      THEN found[CHOOSE k \in matching : \A other \in matching : k <= other]
                      ELSE found[1]
              IN  /\ now' = t
                  /\ dash' = [dash EXCEPT !.devices = found,
                                          !.selectedDevice = selectedDevice,
                                          !.at = t,
                                          !.cutoffTime = IF hours = NaN THEN InvalidDate
                                                         ELSE t - hours * Hour,
                                          !.pc = "readings"]
    /\ UNCHANGED <<store, serial, inflight, faults, body, pc, idx, local, stack, results,
                   response, query, health>>

\* const readings = await db.query.telemetryReadings.findMany(...).  An Invalid
\* Date cannot be bound to the query: it throws.
dashboard_findReadings ==
    /\ dash.pc = "readings"
    /\ IF dash.cutoffTime = InvalidDate
       THEN dash' = DashboardError
       ELSE LET limit == IF Truthy(query.limit) THEN ParseInt(query.limit)
                                                ELSE DefaultLimit
                inWindow == { r \in readings : /\ r.deviceId = dash.selectedDevice.id
                                               /\ r.timestamp >= dash.cutoffTime }
            IN  \E found \in OrdersByTimestamp(inWindow) :
                   dash' = Continue([dash EXCEPT !.readings = Limit(found, limit)],
                                    "readings")
    /\ UNCHANGED <<now, store, serial, inflight, faults, body, pc, idx, local, stack,
                   results, response, query, health>>

readingIds == { dash.readings[k].id : k \in DOMAIN dash.readings }

SeriesTable(stage) ==
    CASE stage = "battery" -> "batteryReadings"
      [] stage = "thermal" -> "thermalSummaryReadings"
      [] stage = "cpuLoad" -> "cpuLoadReadings"
      [] stage = "memory" -> "memoryReadings"

\* The four series: the rows of the table for the reading ids, each pushed with
\* the timestamp of its reading, in the order the query returns them.
dashboard_findSeries ==
    /\ dash.pc \in {"battery", "thermal", "cpuLoad", "memory"}
    /\ \E found \in Orders(Fetched(SeriesTable(dash.pc), readingIds)) :
         LET series == [k \in DOMAIN found |-> Entry(found[k].row)]
             d == CASE dash.pc = "battery" -> [dash EXCEPT !.batteryData = series]
                    [] dash.pc = "thermal" -> [dash EXCEPT !.thermalData = series]
                    [] dash.pc = "cpuLoad" -> [dash EXCEPT !.cpuLoadData = series]
                    [] dash.pc = "memory" -> [dash EXCEPT !.memoryData = series]
         IN  dash' = Continue(d, dash.pc)
    /\ UNCHANGED <<now, store, serial, inflight, faults, body, pc, idx, local, stack,
                   results, response, query, health>>

\* const latestMediumReading = await db.query.telemetryReadings.findFirst(...)
dashboard_latestMediumReading ==
    /\ dash.pc = "latestMedium"
    /\ \E latest \in LatestReadings(dash.selectedDevice.id, "medium") :
         dash' = Continue([dash EXCEPT !.latestMediumReading = latest], "latestMedium")
    /\ UNCHANGED <<now, store, serial, inflight, faults, body, pc, idx, local, stack,
                   results, response, query, health>>

\* Mutant: the processes in ascending order of memoryPercent.
TopProcesses_Ascending(readingId) ==
    LET desc == ProcessesDesc(RowsOf("processReadings", readingId))
    IN  Limit([k \in DOMAIN desc |-> desc[Len(desc) + 1 - k]], TopProcessesLimit)

\* findMany on processReadings: orderBy desc(memoryPercent), limit 15
TopProcesses(readingId) ==
    Limit(ProcessesDesc(RowsOf("processReadings", readingId)), TopProcessesLimit)

dashboard_findProcesses ==
    /\ dash.pc = "processes"
    /\ dash' = Continue([dash EXCEPT !.topProcesses =
                                        TopProcesses(dash.latestMediumReading.id)],
                        "processes")
    /\ UNCHANGED <<now, store, serial, inflight, faults, body, pc, idx, local, stack,
                   results, response, query, health>>

\* systemInfo: cpuLoadData[0] as fetched, and the cpu-load row of readings[0]
dashboard_latestCpuLoadReading ==
    /\ dash.pc = "latestCpuLoad"
    /\ \E row \in FirstRows("cpuLoadReadings", dash.readings[1].id) :
         dash' = Continue([dash EXCEPT !.latestCpuLoad = dash.cpuLoadData[1],
                                       !.latestCpuLoadReading = row], "latestCpuLoad")
    /\ UNCHANGED <<now, store, serial, inflight, faults, body, pc, idx, local, stack,
                   results, response, query, health>>

dashboard_latestLowReading ==
    /\ dash.pc = "latestLow"
    /\ \E latest \in LatestReadings(dash.selectedDevice.id, "low") :
         dash' = Continue([dash EXCEPT !.latestLowReading = latest], "latestLow")
    /\ UNCHANGED <<now, store, serial, inflight, faults, body, pc, idx, local, stack,
                   results, response, query, health>>

\* Mutant: the GPU row taken from the medium-tier reading that is the latest
\* when the GPU is looked up.
dashboard_findFirst_LatestAgain ==
    /\ dash.pc \in {"display", "network", "gpu"}
    /\ CASE dash.pc = "display" ->
              \E row \in FirstRows("displayReadings", dash.latestLowReading.id) :
                 dash' = Continue([dash EXCEPT !.display = row], "display")
         [] dash.pc = "network" ->
              \E row \in FirstRows("networkSummaryReadings", dash.readings[1].id) :
                 dash' = Continue([dash EXCEPT !.networkStats = row], "network")
         [] dash.pc = "gpu" ->
              \E latest \in LatestReadings(dash.selectedDevice.id, "medium") :
                 \E row \in FirstRows("gpuReadings", latest.id) :
                    dash' = Continue([dash EXCEPT !.gpuInfo = row], "gpu")
    /\ UNCHANGED <<now, store, serial, inflight, faults, body, pc, idx, local, stack,
                   results, response, query, health>>

\* The queries that take one row of one reading: display, network summary, GPU.
dashboard_findFirst ==
    /\ dash.pc \in {"display", "network", "gpu"}
    /\ CASE dash.pc = "display" ->
              \E row \in FirstRows("displayReadings", dash.latestLowReading.id) :
                 dash' = Continue([dash EXCEPT !.display = row], "display")
         [] dash.pc = "network" ->
              \E row \in FirstRows("networkSummaryReadings", dash.readings[1].id) :
                 dash' = Continue([dash EXCEPT !.networkStats = row], "network")
         [] dash.pc = "gpu" ->
              \E row \in FirstRows("gpuReadings", dash.latestMediumReading.id) :
                 dash' = Continue([dash EXCEPT !.gpuInfo = row], "gpu")
    /\ UNCHANGED <<now, store, serial, inflight, faults, body, pc, idx, local, stack,
                   results, response, query, health>>

\* The series are sorted in place and the response is returned.
dashboard_respond ==
    /\ dash.pc = "respond"
    /\ dash' = [dash EXCEPT !.batteryData = SortByTimestamp(@),
                            !.thermalData = SortByTimestamp(@),
                            !.cpuLoadData = SortByTimestamp(@),
                            !.memoryData = SortByTimestamp(@),
                            !.pc = "done", !.status = 200, !.success = TRUE]
    /\ UNCHANGED <<now, store, serial, inflight, faults, body, pc, idx, local, stack,
                   results, response, query, health>>

\* A storage or connectivity error on the query the handler awaits.
dashboard_storeError ==
    /\ query.route = "dashboard"
    /\ dash.pc \notin {"respond", "done"}
    /\ faults < MaxFaults
    /\ faults' = faults + 1
    /\ dash' = DashboardError
    /\ UNCHANGED <<now, store, serial, inflight, body, pc, idx, local, stack, results,
                   response, query, health>>

(***************************************************************************)
(* GET /api/health: the probe SELECT 1, then 200 whatever its outcome.     *)
(***************************************************************************)
startTime == 0
Version == "1.0.0"

NoHealth == [pc |-> "idle", status |-> 0, success |-> FALSE,
             data |-> [status |-> "", database |-> "", uptime |-> 0, version |-> ""]]

\* Mutant: the failed probe answered as an error.
HealthResponse_ServiceUnavailable(dbStatus, t) ==
    [pc |-> "done", status |-> IF dbStatus = "connected" THEN 200 ELSE 503,
     success |-> dbStatus = "connected",
     data |-> [status |-> IF dbStatus = "connected" THEN "healthy" ELSE "unhealthy",
               database |-> dbStatus, uptime |-> t - startTime, version |-> Version]]

HealthResponse(dbStatus, t) ==
    [pc |-> "done", status |-> 200, success |-> dbStatus = "connected",
     data |-> [status |-> IF dbStatus = "connected" THEN "healthy" ELSE "unhealthy",
               database |-> dbStatus, uptime |-> t - startTime, version |-> Version]]

\* await db.execute(sql`SELECT 1`) succeeds
health_connected ==
    /\ query.route = "health"
    /\ health.pc = "idle"
    /\ \E t \in Clock :
         /\ now' = t
         /\ health' = HealthResponse("connected", t)
    /\ UNCHANGED <<store, serial, inflight, faults, body, pc, idx, local, stack, results,
                   response, query, dash>>

\* the probe throws: catch (error) { dbStatus = 'disconnected' }
health_disconnected ==
    /\ query.route = "health"
    /\ health.pc = "idle"
    /\ faults < MaxFaults
    /\ faults' = faults + 1
    /\ \E t \in Clock :
         /\ now' = t
         /\ health' = HealthResponse("disconnected", t)
    /\ UNCHANGED <<store, serial, inflight, body, pc, idx, local, stack, results,
                   response, query, dash>>

(***************************************************************************)
(* The requests of a run.  Each client sends at most one request.  Alone,  *)
(* a client sends any request below, or a failing one for a registered     *)
(* device; two clients together send the small ones.  timestampMs tells    *)
(* the payloads of a run apart.                                            *)
(***************************************************************************)
Ms(c, k) == 10 * c + k

ValidPayloads(ids, samples, ms) ==
    { Payload(id, Iso1, ms, data.shape, data) : id \in ids, data \in samples }

\* Payloads the validation rejects: a field missing, or a frequency unknown.
RejectedPayloads(ms) ==
    LET data == LowData(<<>>, <<>>) IN
    { Payload("", Iso1, ms, "low", data),
      Payload("ppp-a", undefined, ms, "low", data),
      Payload("ppp-a", Iso1, ms, undefined, data),
      Payload("ppp-a", Iso1, ms, "low", NoData),
      Payload("ppp-a", Iso1, ms, "ultra", data) }

\* Payloads that pass the validation and fail later: a timestamp that is no
\* date, and data that has not the shape of its tier.
FailingPayloads(ms) ==
    { Payload("ppp-a", "yesterday", ms, "low", LowData(<<>>, <<>>)),
      Payload("ppp-a", Iso1, ms, "high", LowData(<<>>, <<>>)) }

SmallPayloads(ms) ==
    ValidPayloads(ExternalIds, SmallSamples, ms)
    \cup { Payload("ppp-a", Iso1, ms, "ultra", LowData(<<>>, <<>>)) }

\* The payloads field of a batch: n small payloads, the k-th stamped Ms(c, k).
PayloadArrays(c, n) ==
    { ps \in [1..n -> UNION { SmallPayloads(Ms(c, k)) : k \in 1..n }] :
        \A k \in 1..n : ps[k].timestampMs = Ms(c, k) }

Batches(c) ==
    {BatchWithoutArray}
    \cup UNION { { Batch(ps) : ps \in PayloadArrays(c, n) } : n \in 0..MaxBatch }

AloneRequests(c) ==
    { Single(p) : p \in ValidPayloads({"ppp-a"}, HighSamples \cup MediumSamples \cup LowSamples,
                                      Ms(c, 1))
                        \cup RejectedPayloads(Ms(c, 1)) \cup FailingPayloads(Ms(c, 1)) }
    \cup Batches(c)

\* Client 1 reports for ppp-a; client 2 for either device, or is rejected.
TogetherRequests(c) ==
    { Single(p) : p \in ValidPayloads(IF c = 1 THEN {"ppp-a"} ELSE ExternalIds,
                                      {LowData(<<>>, <<>>)}, Ms(c, 1))
                        \cup (IF c = 1 THEN {} ELSE RejectedPayloads(Ms(c, 1))) }

\* The registry before the run: empty, or ppp-a registered at time 0.
Registered == {NewDevice(1, "ppp-a", 0)}

Init ==
    /\ now = 0
    /\ readings = {}
    /\ rows = EmptyBag
    /\ storageRows = {}
    /\ inflight = {}
    /\ faults = 0
    /\ \/ /\ devices \in {{}, Registered}
          /\ body \in [Clients -> UNION { TogetherRequests(c) : c \in Clients }]
          /\ \A c \in Clients : body[c] \in TogetherRequests(c)
       \/ /\ devices = {}
          /\ \E r \in AloneRequests(1) :
                body = [c \in Clients |-> IF c = 1 THEN r ELSE NoRequest]
       \/ /\ devices = Registered
          /\ \E p \in FailingPayloads(Ms(1, 1)) :
                body = [c \in Clients |-> IF c = 1 THEN Single(p) ELSE NoRequest]
    /\ serial = [devices |-> Cardinality(devices), readings |-> 0, storage |-> 0]
    /\ pc = [c \in Clients |-> "idle"]
    /\ idx = [c \in Clients |-> 0]
    /\ local = [c \in Clients |-> NoLocal]
    /\ stack = [c \in Clients |-> <<>>]
    /\ results = [c \in Clients |-> <<>>]
    /\ response = [c \in Clients |-> NoResponse]
    /\ query = NoQuery
    /\ dash = NoDash
    /\ health = NoHealth

Next ==
    \/ \E c \in Clients : POST_telemetry(c) /\ UNCHANGED gets
    \/ \E c \in Clients : POST_batch(c) /\ UNCHANGED gets
    \/ \E c \in Clients : getOrCreateDevice_findFirst(c) /\ UNCHANGED gets
    \/ \E c \in Clients : getOrCreateDevice_update(c) /\ UNCHANGED gets
    \/ \E c \in Clients : getOrCreateDevice_insert(c) /\ UNCHANGED gets
    \/ \E c \in Clients : createReading(c) /\ UNCHANGED gets
    \/ \E c \in Clients : processTelemetryPayload_switch(c) /\ UNCHANGED gets
    \/ \E insert \in inflight : childInsert(insert) /\ UNCHANGED gets
    \/ \E insert \in inflight : childInsertError(insert) /\ UNCHANGED gets
    \/ \E c \in Clients : promiseAllResolved(c) /\ UNCHANGED gets
    \/ \E c \in Clients : insertStorageDevice(c) /\ UNCHANGED gets
    \/ \E c \in Clients : processTelemetryPayload_return(c) /\ UNCHANGED gets
    \/ \E c \in Clients : storeError(c) /\ UNCHANGED gets

Spec == Init /\ [][Next]_vars

(***************************************************************************)
(* The runs of the GET handlers.  The store holds what earlier submissions *)
(* left: high-tier readings of ppp-a stamped two hours ago, half an hour   *)
(* ago and an hour ahead of the server's clock, and readings of every tier *)
(* of ppp-b.  The GET request runs alone, or a dashboard request runs      *)
(* while client 1 submits.                                                 *)
(***************************************************************************)
\* The Reading and the child rows a completed submission left.
PastReading(id, deviceDbId, timestamp, data) ==
    [reading |-> NewReading(id, deviceDbId, DateParse(timestamp), 100 + id, data.shape),
     rows |-> SetToBag({ RowOf(insert) : insert \in Normalizer(data.shape, id, data) })]

History ==
    LET none == HighData(<<>>, <<>>, <<>>, <<>>, <<>>)
        busy == MediumData(<<>>, <<>>, <<7, 3, 16, 1, 12, 9, 5, 14, 2, 11, 8, 15, 4, 13, 6, 10>>,
                           <<>>)
    IN  << PastReading(1, 1, "1969-12-31T22:00:00Z", none),
           PastReading(2, 1, "1969-12-31T23:30:00Z", none),
           PastReading(3, 1, "1970-01-01T01:00:00Z", none),
           PastReading(4, 2, "1969-12-31T22:00:00Z", MediumData(<<>>, <<>>, <<99>>, <<>>)),
           PastReading(5, 2, "1969-12-31T22:00:00Z", LowData(<<>>, <<>>)),
           PastReading(6, 2, "1969-12-31T23:30:00Z", none),
           PastReading(7, 2, "1969-12-31T23:30:00Z", LowData(<<>>, <<>>)),
           PastReading(8, 2, "1970-01-01T00:00:00Z", busy) >>

RECURSIVE BagSum(_, _)
BagSum(seq, n) == IF n = 0 THEN EmptyBag ELSE BagSum(seq, n - 1) (+) seq[n].rows

\* The devices of the history, last seen at the given times.
HistoryDevices(seenA, seenB) ==
    { [NewDevice(1, "ppp-a", -7200) EXCEPT !.lastSeenAt = seenA],
      [NewDevice(2, "ppp-b", -7200) EXCEPT !.lastSeenAt = seenB] }

LastSeenTimes == { <<-1800, -3600>>, <<-3600, -1800>>, <<-1800, -1800>> }

\* The requests of a GET that runs alone.
AloneQueries ==
    { DashboardQuery(deviceId, "1", limit) :
        deviceId \in {null, "", "ppp-b", "ppp-x"}, limit \in {null, "1"} }
    \cup { DashboardQuery(deviceId, hours, limit) :
             deviceId \in {null, "ppp-b"}, hours \in {null, "0", "2", "abc"},
             limit \in {null, "2"} }
    \cup {DashboardQuery(null, "2", "1"), HealthQuery}

\* The submissions that run together with a dashboard request: a reading of
\* a registered device, and the first reading of a new one.
KnownSubmission ==
    Single(Payload("ppp-b", Iso1, Ms(1, 1), "medium", MediumData(<<>>, <<>>, <<81>>, <<>>)))
FirstSubmission ==
    Batch(<<Payload("ppp-a", Iso1, Ms(1, 1), "medium",
                    MediumData(<<>>, <<>>, <<>>, <<BlockDevice(<<1>>, <<>>)>>))>>)

InitDashboard ==
    /\ now = 0
    /\ inflight = {}
    /\ faults = 0
    /\ \/ /\ devices = {}
          /\ readings = {}
          /\ rows = EmptyBag
          /\ body = [c \in Clients |-> NoRequest]
          /\ query \in AloneQueries
       \/ /\ \E seen \in LastSeenTimes : devices = HistoryDevices(seen[1], seen[2])
          /\ readings = { History[k].reading : k \in DOMAIN History }
          /\ rows = BagSum(History, Len(History))
          /\ body = [c \in Clients |-> NoRequest]
          /\ query \in AloneQueries
       \/ /\ devices = HistoryDevices(-1800, -3600)
          /\ readings = { History[k].reading : k \in DOMAIN History }
          /\ rows = BagSum(History, Len(History))
          /\ body = [c \in Clients |-> IF c = 1 THEN KnownSubmission ELSE NoRequest]
          /\ query \in {DashboardQuery("ppp-b", "1", null), DashboardQuery("ppp-a", "1", null)}
       \/ /\ devices = {}
          /\ readings = {}
          /\ rows = EmptyBag
          /\ body = [c \in Clients |-> IF c = 1 THEN FirstSubmission ELSE NoRequest]
          /\ query = DashboardQuery(null, "1", null)
    /\ storageRows = {}
    /\ serial = [devices |-> Cardinality(devices), readings |-> Cardinality(readings),
                 storage |-> 0]
    /\ pc = [c \in Clients |-> "idle"]
    /\ idx = [c \in Clients |-> 0]
    /\ local = [c \in Clients |-> NoLocal]
    /\ stack = [c \in Clients |-> <<>>]
    /\ results = [c \in Clients |-> <<>>]
    /\ response = [c \in Clients |-> NoResponse]
    /\ dash = NoDash
    /\ health = NoHealth

NextDashboard ==
    \/ Next
    \/ dashboard_findDevices
    \/ dashboard_findReadings
    \/ dashboard_findSeries
    \/ dashboard_latestMediumReading
    \/ dashboard_findProcesses
    \/ dashboard_latestCpuLoadReading
    \/ dashboard_latestLowReading
    \/ dashboard_findFirst
    \/ dashboard_respond
    \/ dashboard_storeError
    \/ health_connected
    \/ health_disconnected

SpecDashboard == InitDashboard /\ [][NextDashboard]_vars

(***************************************************************************)
(* Properties.                                                             *)
(***************************************************************************)
DevicesOf(deviceId) == { d \in devices : d.deviceId = deviceId }

\* The payloads processTelemetryPayload has completed for c, by index.
Completed(c) == DOMAIN results[c]

\* C1: once processTelemetryPayload has completed a payload, exactly one Reading
\* row exists for it, with the submitted tier and the Device of the payload's
\* deviceId, and that Device's lastSeenAt is not before the time the submission
\* began.
C1_ReadingAndLastSeen ==
    \A c \in Clients : \A k \in Completed(c) :
        LET payload == body[c].payloads[k]
            mine == { r \in readings : r.timestampMs = payload.timestampMs }
        IN  /\ Cardinality(mine) = 1
            /\ \A r \in mine :
                 /\ r.id = results[c][k].readingId
                 /\ r.frequency = payload.frequency
                 /\ \E d \in devices :
                      /\ d.id = r.deviceId
                      /\ d.deviceId = payload.deviceId
                      /\ d.lastSeenAt >= local[c].began

\* C2: at most one Device row per external deviceId in every state, and exactly
\* one once a submission with that deviceId has been answered 201.
C2_OneDevicePerExternalId ==
    /\ \A id \in ExternalIds : Cardinality(DevicesOf(id)) <= 1
    /\ \A c \in Clients :
         response[c].status = 201 =>
            \A k \in DOMAIN body[c].payloads :
                Cardinality(DevicesOf(body[c].payloads[k].deviceId)) = 1

\* Both clients found ppp-a unregistered and both tried to insert it.
C2_Witness ==
    /\ \A c \in Clients :
         /\ pc[c] = "done"
         /\ body[c].kind = "single"
         /\ body[c].payloads[1].deviceId = "ppp-a"
    /\ serial.devices = 2
    /\ faults = 0
    /\ Cardinality(DevicesOf("ppp-a")) = 1

\* C3: after a successful high-tier submission, each exactly-one table of the
\* high tier holds one row of its reading, each array table as many rows as the
\* payload array has elements, and no medium or low table holds a row of it.
C3_HighTierChildRows ==
    \A c \in Clients : \A k \in Completed(c) :
        LET payload == body[c].payloads[k]
            r == results[c][k].readingId
        IN  payload.frequency = "high" =>
              /\ \A t \in {"batteryReadings", "usbInputReadings", "usbPdReadings",
                           "typeCPortReadings", "thermalSummaryReadings", "cpuLoadReadings",
                           "memoryReadings", "networkSummaryReadings"} :
                    CountRows(t, r) = 1
              /\ CountRows("thermalZoneReadings", r) = Len(payload.data.zones)
              /\ CountRows("coolingDeviceReadings", r) = Len(payload.data.coolingDevices)
              /\ CountRows("cpuFrequencyReadings", r) = Len(payload.data.frequencies)
              /\ CountRows("cpuTimeReadings", r) = Len(payload.data.cpuTimes)
              /\ CountRows("networkInterfaceReadings", r) = Len(payload.data.interfaces)
              /\ \A t \in MediumTables \cup LowTables : CountRows(t, r) = 0

\* A high-tier submission with two thermal zones has been answered 201.
C3_Witness ==
    \E c \in Clients :
        /\ response[c].status = 201
        /\ body[c].payloads[1].frequency = "high"
        /\ Len(body[c].payloads[1].data.zones) = 2
        /\ CountRows("thermalZoneReadings", results[c][1].readingId) = 2

\* C4: in every state, also after failed or partial submissions, every child
\* row is in a table of the tier of its Reading.
C4_RowsInTablesOfTheirTier ==
    /\ \A row \in BagToSet(rows) : \A reading \in readings :
          reading.id = row.readingId => reading.frequency = TierOf(row.table)
    /\ \A row \in storageRows : \A reading \in readings :
          reading.id = row.readingId => reading.frequency = "medium"

\* A submission has failed after some of its child rows were written.
C4_Witness ==
    \E c \in Clients :
        /\ response[c].status = 500
        /\ faults > 0
        /\ \E row \in BagToSet(rows) : row.readingId = local[c].readingId

\* A batch request all of whose payloads are valid.
ValidBatch(c) ==
    /\ body[c].kind = "batch"
    /\ body[c].isArray
    /\ body[c].payloads # <<>>
    /\ \A k \in DOMAIN body[c].payloads :
          /\ body[c].payloads[k].deviceId \in ExternalIds
          /\ body[c].payloads[k].timestamp \in IsoStrings
          /\ body[c].payloads[k].frequency \in {"high", "medium", "low"}
          /\ body[c].payloads[k].data.shape = body[c].payloads[k].frequency

\* C5: a batch of K valid payloads without a store failure is answered 201 with
\* received = K, failed = 0 and K ids, the i-th the id of the Reading of the
\* i-th payload, and K Reading rows have been created.
C5_BatchAck ==
    \A c \in Clients :
        (ValidBatch(c) /\ pc[c] = "done" /\ faults = 0) =>
            LET K == Len(body[c].payloads) IN
            /\ response[c].status = 201
            /\ response[c].received = K
            /\ response[c].failed = 0
            /\ Len(response[c].ids) = K
            /\ Cardinality(readings) = K
            /\ \A i \in 1..K :
                 \E reading \in readings :
                    /\ ToString(reading.id) = response[c].ids[i]
                    /\ reading.timestampMs = body[c].payloads[i].timestampMs
                    /\ reading.frequency = body[c].payloads[i].frequency
                    /\ \E d \in devices :
                         d.id = reading.deviceId /\ d.deviceId = body[c].payloads[i].deviceId

\* A batch of two payloads of one device has been answered 201.
C5_Witness ==
    \E c \in Clients :
        /\ ValidBatch(c)
        /\ Len(body[c].payloads) = 2
        /\ body[c].payloads[1].deviceId = body[c].payloads[2].deviceId
        /\ response[c].status = 201
        /\ response[c].ids = <<"1", "2">>

\* The store as it is before any submission of an empty registry.
StoreUntouched ==
    /\ devices = {}
    /\ readings = {}
    /\ rows = EmptyBag
    /\ storageRows = {}
    /\ inflight = {}
    /\ serial = [devices |-> 0, readings |-> 0, storage |-> 0]

\* A payload with deviceId, timestamp, frequency or data missing, or with a
\* frequency that is none of high, medium and low.
Malformed(payload) ==
    \/ payload.deviceId \in {"", undefined}
    \/ payload.timestamp \in {"", undefined}
    \/ payload.frequency \notin {"high", "medium", "low"}
    \/ payload.data = NoData

\* The handler of c has not gone past its validation.
NothingDone(c) ==
    /\ pc[c] \in {"idle", "done"}
    /\ local[c] = NoLocal
    /\ results[c] = <<>>
    /\ \A k \in DOMAIN body[c].payloads :
          \A reading \in readings : reading.timestampMs # body[c].payloads[k].timestampMs
    /\ body[3 - c] = NoRequest => StoreUntouched

\* The step that answers the request of c writes nothing.
AnsweredWithoutWrite(c) ==
    (pc[c] = "idle" /\ pc'[c] = "done") => (store' = store /\ serial' = serial)

\* C6: a single submission with a required field missing or an unknown
\* frequency is answered 400 and writes nothing: no Reading, no Device, no
\* lastSeenAt.
C6_InvalidSingleRejected ==
    /\ [](\A c \in Clients :
            (body[c].kind = "single" /\ Malformed(body[c].payloads[1])) =>
                /\ NothingDone(c)
                /\ pc[c] = "done" => response[c].status = 400)
    /\ [][\A c \in Clients :
            (body[c].kind = "single" /\ Malformed(body[c].payloads[1])) =>
                AnsweredWithoutWrite(c)]_vars

\* The submission with frequency "ultra" has been answered 400.
C6_Witness ==
    /\ body[1].kind = "single"
    /\ body[1].payloads[1].frequency = "ultra"
    /\ response[1].status = 400
    /\ StoreUntouched

\* A batch body the endpoint has to reject.
MalformedBatch(c) ==
    /\ body[c].kind = "batch"
    /\ \/ ~body[c].isArray
       \/ body[c].payloads = <<>>
       \/ \E k \in DOMAIN body[c].payloads : Malformed(body[c].payloads[k])

\* C7: a batch whose payloads field is missing, no array or empty, or one of
\* whose elements fails the validation, is answered 400 and none of its
\* elements is processed: the store stays as it was.
C7_InvalidBatchRejected ==
    /\ [](\A c \in Clients :
            MalformedBatch(c) =>
                /\ NothingDone(c)
                /\ pc[c] = "done" => response[c].status = 400)
    /\ [][\A c \in Clients : MalformedBatch(c) => AnsweredWithoutWrite(c)]_vars

\* A batch of a valid payload followed by one with frequency "ultra" has been
\* answered 400.
C7_Witness ==
    /\ body[1].kind = "batch"
    /\ Len(body[1].payloads) = 2
    /\ ~Malformed(body[1].payloads[1])
    /\ body[1].payloads[2].frequency = "ultra"
    /\ response[1].status = 400
    /\ StoreUntouched

\* Every row the normalizer of the payload's tier writes for reading r is there.
ChildRowsComplete(payload, r) ==
    /\ \A insert \in Normalizer(payload.frequency, r, payload.data) :
          CopiesIn(RowOf(insert), rows) = 1
    /\ payload.frequency = "medium" =>
          CountRows("storageDeviceReadings", r) =
              Cardinality(ForestNodes(payload.data.devices, <<>>))

\* C8: a batch is processed one payload after the other in array order: while
\* payload i is processed the payloads before it are complete and nothing of
\* the payloads after it is written or in flight; when payload i fails the
\* request is answered 500, the rows of the payloads before it stay and nothing
\* is ever written for the payloads after it.
C8_BatchSequential ==
    \A c \in Clients :
        ValidBatch(c) =>
            /\ Len(results[c]) \in {idx[c] - 1, idx[c]}
            /\ \A k \in DOMAIN body[c].payloads :
                 LET mine == { r \in readings :
                                 r.timestampMs = body[c].payloads[k].timestampMs }
                 IN  /\ k > idx[c] => mine = {}
                     /\ k <= Len(results[c]) =>
                          /\ mine # {}
                          /\ \A r \in mine :
                               /\ r.id = results[c][k].readingId
                               /\ ChildRowsComplete(body[c].payloads[k], r.id)
                     /\ k # idx[c] =>
                          \A r \in mine : \A insert \in inflight : insert.readingId # r.id
            /\ pc[c] = "done" =>
                 /\ faults > 0 <=> response[c].status = 500
                 /\ response[c].status = 500 => Len(results[c]) = idx[c] - 1
                 /\ response[c].status = 201 => Len(results[c]) = Len(body[c].payloads)

\* The second payload of a batch has failed: 500, with the rows of the first.
C8_Witness ==
    \E c \in Clients :
        /\ ValidBatch(c)
        /\ Len(body[c].payloads) = 2
        /\ idx[c] = 2
        /\ response[c].status = 500
        /\ Len(results[c]) = 1
        /\ ChildRowsComplete(body[c].payloads[1], results[c][1].readingId)

\* An insert of the Promise.all that c awaits leaves without its row written.
InsertFailed(c) ==
    /\ pc[c] = "awaitAll"
    /\ rows' = rows
    /\ \E insert \in inflight \ inflight' : insert.readingId = local[c].readingId

\* C9: child inserts are not atomic with their Reading: when a child insert
\* fails the submission is answered 500, and the Reading and the child rows
\* already written stay; no step removes a row.
C9_NoRollback ==
    /\ [][/\ readings \subseteq readings'
          /\ storageRows \subseteq storageRows'
          /\ \A row \in BagToSet(rows) : CopiesIn(row, rows') >= CopiesIn(row, rows)
          /\ \A c \in Clients :
                InsertFailed(c) => (pc'[c] = "done" /\ response'[c].status = 500)]_vars
    /\ [](\A c \in Clients :
            (response[c].status = 500 /\ local[c].readingId # 0) =>
                ReadingExists(local[c].readingId))

\* A submission answered 500 whose Reading is left with some of its child rows
\* and not all, nothing of it in flight any more.
C9_Witness ==
    \E c \in Clients :
        /\ response[c].status = 500
        /\ ReadingExists(local[c].readingId)
        /\ \A insert \in inflight : insert.readingId # local[c].readingId
        /\ \E row \in BagToSet(rows) : row.readingId = local[c].readingId
        /\ ~ChildRowsComplete(payloadOf(c), local[c].readingId)

\* C10: a successful medium-tier submission leaves one storage-device row per
\* node of its storage-device trees, all of its reading; the row of a root has
\* no parent (0), the row of a partition has the id of the row of its device.
C10_StorageTree ==
    \A c \in Clients : \A k \in Completed(c) :
        LET payload == body[c].payloads[k]
            mine == { row \in storageRows : row.readingId = results[c][k].readingId }
            nodes == ForestNodes(payload.data.devices, <<>>)
        IN  payload.frequency = "medium" =>
              /\ Cardinality(mine) = Cardinality(nodes)
              /\ \A node \in nodes :
                   \E row \in mine :
                      /\ row.name = node.name
                      /\ IF node.parent = <<>>
                         THEN row.parentDeviceId = 0
                         ELSE \E parent \in mine :
                                 /\ parent.name = node.parent
                                 /\ row.parentDeviceId = parent.id

\* A device with two partitions has been stored: three rows, one without
\* parent and two with the id of the first.
C10_Witness ==
    \E c \in Clients :
        /\ response[c].status = 201
        /\ body[c].payloads[1].frequency = "medium"
        /\ body[c].payloads[1].data.devices =
              <<BlockDevice(<<1>>, <<BlockDevice(<<1, 1>>, <<>>),
                                     BlockDevice(<<1, 2>>, <<>>)>>)>>
        /\ { [id |-> row.id, parentDeviceId |-> row.parentDeviceId] : row \in storageRows }
              = { [id |-> 1, parentDeviceId |-> 0], [id |-> 2, parentDeviceId |-> 1],
                  [id |-> 3, parentDeviceId |-> 1] }

\* C11: a call of getOrCreateDevice that found the Device of the external id
\* sets its lastSeenAt to the time of the call, returns its internal id and
\* creates no row; a call that found none creates exactly one Device row, named
\* by the external id, and returns its id.  The id returned is the id of a
\* Device of the external id.
C11_GetOrCreateDevice ==
    /\ [][\A c \in Clients :
            (pc[c] \in {"update", "insert"} /\ pc'[c] = "createReading") =>
               LET id == local'[c].deviceDbId IN
               IF pc[c] = "update"
               THEN /\ id = local[c].existing
                    /\ { d.id : d \in devices' } = { d.id : d \in devices }
                    /\ Cardinality(devices') = Cardinality(devices)
                    /\ \E d \in devices' :
                          /\ d.id = id
                          /\ d.deviceId = payloadOf(c).deviceId
                          /\ d.lastSeenAt = local[c].date
                          /\ local[c].began <= d.lastSeenAt /\ d.lastSeenAt <= now
               ELSE /\ DevicesOf(payloadOf(c).deviceId) = {}
                    /\ \E d \in devices' :
                          /\ devices' = devices \cup {d}
                          /\ d \notin devices
                          /\ d.id = id
                          /\ d.deviceId = payloadOf(c).deviceId
                          /\ d.name = payloadOf(c).deviceId]_vars
    /\ [](\A c \in Clients :
            pc[c] = "createReading" =>
               \E d \in devices : d.id = local[c].deviceDbId
                                   /\ d.deviceId = payloadOf(c).deviceId)

\* Both cases in one batch: the first payload registered the device, the second
\* found it and set its lastSeenAt to a later time.
C11_Witness ==
    \E c \in Clients :
        /\ pc[c] = "createReading"
        /\ idx[c] = 2
        /\ local[c].existing # 0
        /\ \E d \in devices :
             /\ d.id = local[c].existing
             /\ d.name = payloadOf(c).deviceId
             /\ d.lastSeenAt = local[c].date
             /\ d.lastSeenAt > d.createdAt

\* C12: a single submission is answered 201 only when its Reading row and every
\* child row of its tier, the storage-device rows of a medium payload included,
\* are written and none of its inserts is in flight; the id of the
\* acknowledgment is the decimal string of the id of that Reading.
C12_SingleAck ==
    \A c \in Clients :
        (body[c].kind = "single" /\ response[c].status = 201) =>
            LET payload == body[c].payloads[1]
                mine == { r \in readings : r.timestampMs = payload.timestampMs }
            IN  /\ Cardinality(mine) = 1
                /\ \A r \in mine :
                     /\ ChildRowsComplete(payload, r.id)
                     /\ \A insert \in inflight : insert.readingId # r.id
                     /\ response[c].ids = <<ToString(r.id)>>

\* A medium payload with parallel inserts and a storage tree is acknowledged.
C12_Witness ==
    \E c \in Clients :
        /\ body[c].kind = "single"
        /\ response[c].status = 201
        /\ body[c].payloads[1].frequency = "medium"
        /\ Cardinality(storageRows) = 3
        /\ response[c].ids = <<"1">>

\* The timestamp of the payload c is processing is no date.
MalformedTimestamp(c) ==
    /\ idx[c] \in DOMAIN body[c].payloads
    /\ payloadOf(c).timestamp \notin IsoStrings

\* C19: a submission whose timestamp does not parse to a date fails in
\* createReading: it is answered 500 and no Reading row is written for it,
\* while the Device row its registry step created or updated stays.
C19_MalformedTimestamp ==
    /\ [][\A c \in Clients :
            (MalformedTimestamp(c) /\ pc[c] = "createReading" /\ pc'[c] # pc[c]) =>
                /\ pc'[c] = "done"
                /\ response'[c].status = 500
                /\ readings' = readings
                /\ devices' = devices]_vars
    /\ [](\A c \in Clients :
            (MalformedTimestamp(c) /\ pc[c] = "done") =>
                /\ response[c].status = 500
                /\ \A r \in readings : r.timestampMs # payloadOf(c).timestampMs
                /\ local[c].deviceDbId # 0 =>
                     \E d \in devices : /\ d.id = local[c].deviceDbId
                                        /\ d.deviceId = payloadOf(c).deviceId
                                        /\ d.lastSeenAt >= local[c].began)

\* The registered device has been seen by the failed submission: its lastSeenAt
\* is updated, and there is no Reading.
C19_Witness ==
    \E c \in Clients :
        /\ MalformedTimestamp(c)
        /\ response[c].status = 500
        /\ local[c].existing # 0
        /\ readings = {}
        /\ \E d \in devices : d.id = local[c].existing /\ d.lastSeenAt > d.createdAt

\* C20: the steps of a submission come in the order registry, Reading, child
\* inserts: a handler creating the Reading has its Device, a handler past it
\* has its Reading; every Reading references an existing Device, and every
\* child row, written or in flight, an existing Reading.
C20_ReferencesExist ==
    /\ \A r \in readings : DeviceExists(r.deviceId)
    /\ \A row \in BagToSet(rows) \cup storageRows \cup inflight : ReadingExists(row.readingId)
    /\ \A c \in Clients :
         /\ pc[c] \in {"getOrCreateDevice", "update", "insert", "createReading"} =>
               /\ local[c].readingId = 0
               /\ stack[c] = <<>>
         /\ pc[c] = "createReading" => DeviceExists(local[c].deviceDbId)
         /\ pc[c] \in {"normalize", "awaitAll", "insertStorageDevice", "return"} =>
               \E r \in readings : /\ r.id = local[c].readingId
                                   /\ r.deviceId = local[c].deviceDbId
         /\ pc[c] = "normalize" =>
               \A row \in BagToSet(rows) \cup storageRows \cup inflight :
                    row.readingId # local[c].readingId

\* Child rows of a Reading of a Device are written.
C20_Witness ==
    /\ rows # EmptyBag
    /\ storageRows # {}
    /\ inflight # {}
    /\ \E c \in Clients : pc[c] = "awaitAll"

(***************************************************************************)
(* Properties of the GET handlers.                                         *)
(***************************************************************************)
\* The dashboard request has been answered with its data.
DashboardAnswered == dash.pc = "done" /\ dash.status = 200 /\ dash.selectedDevice.id # 0

Series == <<dash.batteryData, dash.thermalData, dash.cpuLoadData, dash.memoryData>>

\* The readings the entries of a series were built from.
UsedBy(series) == { series[k].readingId : k \in DOMAIN series }

\* The readings earlier submissions left, as far as the store of the run has them.
Past == { History[k].reading : k \in DOMAIN History } \cap readings

\* C13: the series of a dashboard response are built only from readings of the
\* selected device stamped within [now - hours, now], now the time of the
\* request; without a limit every high-tier reading of the device in the window
\* that was there before the request is in every series.
C13_SeriesWithinWindow ==
    DashboardAnswered =>
        \A n \in DOMAIN Series :
            /\ \A id \in UsedBy(Series[n]) :
                 \E r \in readings : /\ r.id = id
                                     /\ r.deviceId = dash.selectedDevice.id
                                     /\ r.timestamp >= dash.cutoffTime
                                     /\ r.timestamp <= dash.at
            /\ ~Truthy(query.limit) =>
                 \A r \in Past :
                    ( /\ r.deviceId = dash.selectedDevice.id
                      /\ r.frequency = "high"
                      /\ r.timestamp >= dash.cutoffTime
                      /\ r.timestamp <= dash.at ) => r.id \in UsedBy(Series[n])

Ascending(series) ==
    \A i, j \in DOMAIN series : i < j => series[i].timestamp <= series[j].timestamp

\* C14: in every dashboard response the battery, thermal, cpuLoad and memory
\* series are in non-decreasing order of the timestamps of their readings.
C14_SeriesAscending ==
    (dash.pc = "done" /\ dash.status = 200) => \A n \in DOMAIN Series : Ascending(Series[n])

\* A response with three entries per series, of three different timestamps.
C14_Witness ==
    /\ DashboardAnswered
    /\ \A n \in DOMAIN Series :
         /\ Len(Series[n]) = 3
         /\ Series[n][1].timestamp < Series[n][2].timestamp
         /\ Series[n][2].timestamp < Series[n][3].timestamp

C16_TopProcesses ==
    DashboardAnswered =>
        LET latest == dash.latestMediumReading
            top == dash.topProcesses
            medium == { r \in readings : /\ r.deviceId = dash.selectedDevice.id
                                         /\ r.frequency = "medium" }
        IN  /\ medium = {} => latest.id = 0
            /\ latest.id = 0 => (top = <<>> /\ dash.gpuInfo = NullRow)
            /\ latest.id # 0 =>
                 /\ latest \in medium
                 /\ \A r \in medium \cap Past : r.timestamp <= latest.timestamp
                 /\ Len(top) <= TopProcessesLimit
                 /\ \A i, j \in DOMAIN top : i < j => top[i] >= top[j]
                 /\ \A k \in DOMAIN top :
                      \E row \in RowsOf("processReadings", latest.id) : row.val = top[k]
                 /\ \A row \in RowsOf("processReadings", latest.id) \cap
                                 { RowOf(Insert(latest.id, "processReadings", 1, v)) : v \in 1..99 } :
                      latest \in Past =>
                         \/ \E k \in DOMAIN top : top[k] = row.val
                         \/ Len(top) = TopProcessesLimit /\ row.val <= top[Len(top)]
                 /\ dash.gpuInfo \in {NullRow} \cup RowsOf("gpuReadings", latest.id)

\* Of the sixteen processes of the latest medium-tier reading the fifteen with
\* the most memory are reported, and none of the older reading.
C16_Witness ==
    /\ DashboardAnswered
    /\ dash.latestMediumReading.id = 8
    /\ dash.topProcesses = [k \in 1..15 |-> 17 - k]
    /\ dash.gpuInfo.readingId = 8
    /\ RowsOf("processReadings", 4) # {}

\* C17: GET /api/health answers 200 whether the probe succeeds or fails:
\* "disconnected" and "unhealthy" when it fails, "connected" and "healthy"
\* when it succeeds.
C17_HealthAlways200 ==
    health.pc = "done" =>
        /\ health.status = 200
        /\ IF faults > 0
           THEN /\ health.data.database = "disconnected"
                /\ health.data.status = "unhealthy"
           ELSE /\ health.data.database = "connected"
                /\ health.data.status = "healthy"

\* The probe has failed and the request is answered.
C17_Witness ==
    /\ health.pc = "done"
    /\ faults > 0
    /\ health.status = 200
    /\ health.data.database = "disconnected"

\* C18: the lookups of one dashboard response are separate reads: each returns
\* what the store holds when it is made, also a reading that was not there
\* when the readings of the series were fetched.
C18_SeparateReads ==
    [][/\ (dash.pc = "latestMedium" /\ dash'.pc \notin {"latestMedium", "done"}) =>
             dash'.latestMediumReading \in LET mine == { r \in readings :
                                                          /\ r.deviceId = dash.selectedDevice.id
                                                          /\ r.frequency = "medium" }
                                           IN  IF mine = {} THEN {NullReading}
                                               ELSE { r \in mine : \A other \in mine :
                                                         other.timestamp <= r.timestamp }
       /\ (dash.pc = "processes" /\ dash'.pc \notin {"processes", "done"}) =>
             \A row \in RowsOf("processReadings", dash.latestMediumReading.id) :
                 \/ Len(dash'.topProcesses) = TopProcessesLimit
                 \/ \E k \in DOMAIN dash'.topProcesses : dash'.topProcesses[k] = row.val]_vars

\* Read skew: the top processes come from a medium-tier reading of the window
\* that is not among the readings of the series of the same response.
C18_Witness ==
    /\ DashboardAnswered
    /\ dash.latestMediumReading.id \notin readingIds
    /\ dash.latestMediumReading.timestamp >= dash.cutoffTime
    /\ dash.latestMediumReading.timestamp <= dash.at
    /\ dash.topProcesses = <<81>>
    /\ dash.readings # <<>>

(***************************************************************************)
(* Further properties of the ingestion.                                    *)
(***************************************************************************)
\* The child tables a normalizer writes exactly one row of per reading.
ExactlyOneTables ==
    {"batteryReadings", "usbInputReadings", "usbPdReadings", "typeCPortReadings",
     "thermalSummaryReadings", "cpuLoadReadings", "memoryReadings", "networkSummaryReadings",
     "gpuReadings", "storageSummaryReadings", "processSummaryReadings",
     "sensorReadings", "displayReadings", "systemWakeupReadings"}

\* C21: every exactly-one child table holds at most one row per Reading, the
\* four power tables, which have no unique constraint, included.
C21_AtMostOneRow ==
    \A table \in ExactlyOneTables : \A r \in readings : CountRows(table, r.id) <= 1

\* The rows of the four power tables of a high-tier reading are written.
C21_Witness ==
    \E r \in readings :
        /\ r.frequency = "high"
        /\ \A table \in {"batteryReadings", "usbInputReadings", "usbPdReadings",
                         "typeCPortReadings"} : CountRows(table, r.id) = 1
        /\ \A insert \in inflight : insert.readingId # r.id

\* C22: ingestion appends: no step removes or changes a Reading, a child row
\* or a storage-device row, or the id, external id, name or createdAt of a
\* Device; the lastSeenAt of a Device changes only by the update of a
\* submission for that Device.
C22_AppendOnly ==
    [][/\ readings \subseteq readings'
       /\ storageRows \subseteq storageRows'
       /\ \A row \in BagToSet(rows) : CopiesIn(row, rows') >= CopiesIn(row, rows)
       /\ \A d \in devices :
            /\ \E e \in devices' : [e EXCEPT !.lastSeenAt = d.lastSeenAt] = d
            /\ d \notin devices' =>
                 \E c \in Clients : /\ pc[c] = "update"
                                    /\ pc'[c] = "createReading"
                                    /\ payloadOf(c).deviceId = d.deviceId]_vars

\* Two devices, one seen again after it was registered, the other as it was
\* created.
C22_Witness ==
    \E d, e \in devices :
        /\ d.deviceId = "ppp-a" /\ d.lastSeenAt > d.createdAt
        /\ e.deviceId = "ppp-b" /\ e.lastSeenAt = e.createdAt
        /\ \E r \in readings : r.deviceId = d.id
        /\ \E r \in readings : r.deviceId = e.id

\* The payload of the run whose Reading is r.
PayloadsOf(r) ==
    { p \in UNION { { body[c].payloads[k] : k \in 1..Len(body[c].payloads) } :
                      c \in Clients } : p.timestampMs = r.timestampMs }

\* C26: a storage-device row of a reading is written only when every parallel
\* insert of the medium normalizer has written its row, so none is written
\* after one of them failed; the rows are inserted one at a time, a partition
\* after the row of its device.
C26_StorageAfterParallel ==
    /\ [][Cardinality(storageRows') <= Cardinality(storageRows) + 1]_vars
    /\ [](\A row \in storageRows :
            /\ \A insert \in inflight : insert.readingId # row.readingId
            /\ \A r \in readings : r.id = row.readingId =>
                 /\ r.frequency = "medium"
                 /\ \A payload \in PayloadsOf(r) :
                      \A insert \in insertMediumFrequencyData(r.id, payload.data) :
                          CopiesIn(RowOf(insert), rows) = 1
            /\ row.parentDeviceId # 0 =>
                 \E parent \in storageRows : /\ parent.id = row.parentDeviceId
                                             /\ parent.id < row.id
                                             /\ parent.readingId = row.readingId)

\* A parallel insert of a medium-tier payload with storage devices has failed:
\* 500, and no storage-device row.
C26_Witness ==
    \E c \in Clients :
        /\ response[c].status = 500
        /\ idx[c] \in DOMAIN body[c].payloads
        /\ payloadOf(c).frequency = "medium"
        /\ payloadOf(c).data.shape = "medium"
        /\ payloadOf(c).data.devices # <<>>
        /\ ReadingExists(local[c].readingId)
        /\ \A insert \in inflight : insert.readingId # local[c].readingId
        /\ \E insert \in insertMediumFrequencyData(local[c].readingId, payloadOf(c).data) :
              CopiesIn(RowOf(insert), rows) = 0
        /\ storageRows = {}

\* Both looked up the same external id and found no Device, and the store has
\* executed the insert of the Device of each: the registry was empty, and the
\* sequence of the device ids has advanced once per insert the store executed.
Raced(c, other) ==
    /\ c # other
    /\ \A x \in {c, other} :
         /\ body[x].kind = "single"
         /\ idx[x] = 1
         /\ local[x].existing = 0
         /\ pc[x] \notin {"idle", "getOrCreateDevice", "insert"}
    /\ body[c].payloads[1].deviceId = body[other].payloads[1].deviceId
    /\ Registered \cap devices = {}
    /\ serial.devices = Cardinality({c, other})

\* C27: of two first-time submissions of one deviceId whose lookups both found
\* no Device exactly one inserts the Device; the other is answered 500 and
\* leaves no Reading and no child row.
C27_RaceLoser ==
    \A c, other \in Clients :
        Raced(c, other) =>
            /\ Cardinality(DevicesOf(body[c].payloads[1].deviceId)) = 1
            /\ (local[c].deviceDbId = 0) # (local[other].deviceDbId = 0)
            /\ local[c].deviceDbId = 0 =>
                 /\ pc[c] = "done"
                 /\ response[c].status = 500
                 /\ local[c].readingId = 0
                 /\ \A r \in readings : r.timestampMs # body[c].payloads[1].timestampMs
                 /\ \A row \in BagToSet(rows) \cup storageRows \cup inflight :
                       \E r \in readings : /\ r.id = row.readingId
                                           /\ r.timestampMs # body[c].payloads[1].timestampMs

\* The unique constraint has rejected the second insert, with no store fault,
\* and the winner has completed.
C27_Witness ==
    \E c, other \in Clients :
        /\ Raced(c, other)
        /\ faults = 0
        /\ response[c].status = 500
        /\ response[other].status = 201

\* C30: the lastSeenAt of a Device never decreases.
C30_LastSeenMonotonic ==
    [][\A d \in devices : \A e \in devices' :
          e.id = d.id => e.lastSeenAt >= d.lastSeenAt]_vars

(***************************************************************************)
(* Further properties of the dashboard.                                    *)
(***************************************************************************)
\* The readings earlier submissions left for the selected device that are
\* stamped within [now - hours, now], now the time of the request.
Window ==
    { r \in Past : /\ r.deviceId = dash.selectedDevice.id
                   /\ r.timestamp >= dash.cutoffTime
                   /\ r.timestamp <= dash.at }

\* C23: a dashboard response uses at most `limit` readings of the selected
\* device (500 by default) and each of its four series has at most `limit`
\* entries; when the window holds more than `limit` readings, of any tier, the
\* series are built only from the `limit` readings of the window with the
\* greatest timestamps.
C23_AtMostLimit ==
    DashboardAnswered =>
        LET limit == IF Truthy(query.limit) THEN ParseInt(query.limit) ELSE DefaultLimit
        IN  /\ Len(dash.readings) <= limit
            /\ \A n \in DOMAIN Series :
                 /\ Len(Series[n]) <= limit
                 /\ Cardinality(Window) > limit =>
                      \A id \in UsedBy(Series[n]) :
                         \E r \in Window :
                            /\ r.id = id
                            /\ Cardinality({ q \in Window : q.timestamp > r.timestamp }) < limit

\* C24: the networkStats of a dashboard response are the network-summary row of
\* the most recent reading of the selected device in the window, and they are
\* reported whenever a reading of the device in the window has a
\* network-summary row.
C24_NetworkStats ==
    DashboardAnswered =>
        /\ dash.networkStats # NullRow =>
             \E r \in Window :
                /\ \A q \in Window : q.timestamp <= r.timestamp
                /\ dash.networkStats \in RowsOf("networkSummaryReadings", r.id)
        /\ (\E r \in Window : RowsOf("networkSummaryReadings", r.id) # {}) =>
             dash.networkStats # NullRow

\* C25: whenever the selected device has a low-tier reading with a display
\* row, the display brightness of a dashboard response is that of the display
\* row of the device's low-tier reading with the greatest timestamp.
C25_DisplayBrightness ==
    DashboardAnswered =>
        LET low == { r \in readings : /\ r.deviceId = dash.selectedDevice.id
                                      /\ r.frequency = "low" }
        IN  (\E r \in low \cap Past : RowsOf("displayReadings", r.id) # {}) =>
               \E r \in low :
                  /\ \A q \in low \cap Past : q.timestamp <= r.timestamp
                  /\ dash.display \in RowsOf("displayReadings", r.id)

\* The readings of the selected device, and null.
OfSelectedDevice == { r.id : r \in { x \in readings : x.deviceId = dash.selectedDevice.id } } \cup {0}

\* C28: every series entry, top process, GPU, network and system value of a
\* dashboard response is taken from a reading of the selected device, whatever
\* the store holds for other devices.
C28_SelectedDeviceOnly ==
    DashboardAnswered =>
        /\ dash.selectedDevice.id \in { d.id : d \in devices }
        /\ \A n \in DOMAIN Series : UsedBy(Series[n]) \subseteq OfSelectedDevice
        /\ dash.latestMediumReading.id \in OfSelectedDevice
        /\ \A k \in DOMAIN dash.topProcesses :
              \E row \in RowsOf("processReadings", dash.latestMediumReading.id) :
                 row.val = dash.topProcesses[k]
        /\ dash.gpuInfo.readingId \in OfSelectedDevice
        /\ dash.networkStats.readingId \in OfSelectedDevice
        /\ dash.latestCpuLoad.readingId \in OfSelectedDevice
        /\ dash.latestCpuLoadReading.readingId \in OfSelectedDevice
        /\ dash.latestLowReading.id \in OfSelectedDevice
        /\ dash.display.readingId \in OfSelectedDevice

\* A response for ppp-a with series, network and system values, given while
\* the store holds readings of every tier of ppp-b and a submission for ppp-b
\* has committed a further one.
C28_Witness ==
    /\ DashboardAnswered
    /\ dash.selectedDevice.deviceId = "ppp-a"
    /\ dash.batteryData # <<>>
    /\ dash.networkStats # NullRow
    /\ dash.latestCpuLoadReading # NullRow
    /\ dash.topProcesses = <<>>
    /\ dash.gpuInfo = NullRow
    /\ \E r \in readings \ Past :
          /\ r.deviceId # dash.selectedDevice.id
          /\ r.frequency = "medium"
          /\ RowsOf("processReadings", r.id) # {}
          /\ RowsOf("gpuReadings", r.id) # {}
    /\ response[1] # NoResponse

\* The medium-tier readings the top processes, and the GPU row, of the
\* response can have been taken from.
SourcesOfTopProcesses ==
    { r \in readings : /\ r.frequency = "medium"
                       /\ \A k \in DOMAIN dash.topProcesses :
                             \E row \in RowsOf("processReadings", r.id) :
                                row.val = dash.topProcesses[k] }
SourcesOfGpuInfo == { r \in readings : r.id = dash.gpuInfo.readingId }

\* C29: the top processes and the GPU info of one dashboard response are taken
\* from the same medium-tier reading, the one looked up once, also when a
\* medium-tier submission commits while the request is served.
C29_SameMediumReading ==
    (dash.pc \in {"respond", "done"} /\ dash.status # 500) =>
        /\ dash.topProcesses # <<>> => dash.latestMediumReading \in SourcesOfTopProcesses
        /\ dash.gpuInfo # NullRow => SourcesOfGpuInfo = {dash.latestMediumReading}
        /\ (dash.topProcesses # <<>> /\ dash.gpuInfo # NullRow) =>
              SourcesOfTopProcesses \cap SourcesOfGpuInfo # {}

\* The request is about to be answered with the top processes and the GPU row
\* of reading 8, and the store already holds a later medium-tier reading of
\* the device, with its process and GPU rows, that a submission committed
\* since the request began.
C29_Witness ==
    /\ dash.pc = "respond"
    /\ dash.latestMediumReading.id = 8
    /\ Len(dash.topProcesses) = TopProcessesLimit
    /\ dash.gpuInfo.readingId = 8
    /\ \E r \in readings \ Past :
          /\ r.deviceId = dash.selectedDevice.id
          /\ r.frequency = "medium"
          /\ r.timestamp > dash.latestMediumReading.timestamp
          /\ RowsOf("processReadings", r.id) # {}
          /\ RowsOf("gpuReadings", r.id) # {}
====
